---- MODULE Spec2Model ----
(***************************************************************************)
(* State-machine model of the SurgeX DxP PDU client                        *)
(* (src/surgex_pdu_driver.py, class SurgeX_DxPClient).                     *)
(*                                                                         *)
(* Bytes are integers 0..255, byte strings and text strings are sequences  *)
(* of them (text as ASCII code points).  A public operation is cut at its  *)
(* blocking socket calls (create_connection, sendall, recv): one action    *)
(* runs from the return of one blocking call to the start of the next.     *)
(***************************************************************************)
EXTENDS Integers, Sequences, FiniteSets, TLC

\* ------------------------------------------------------------------ bounds
\* Number of public operation calls issued on the client in one behaviour.
MaxCalls == 3
\* Outlet arguments range over -1 .. MaxOutlet.
MaxOutlet == 1
\* Longest username / password handed to the constructor (credential runs).
MaxNameLen == 25
\* Sockets that may be open at the same time.
MaxSockets == 2

\* --------------------------------------------------- constants of the code
CMD_IO == 3
IO_CHANGE_RELAY == 1
IO_GET_RELAYS == 4
STATE_ENERGIZE == 1
STATE_RELAX == 0
\* self.sock = None
None == 0
\* largest value struct's "H" (and "<H") format packs
USHRT_MAX == 65535
\* largest value struct's "B" format packs
UCHAR_MAX == 255
\* [:20] and ljust(21, ...) of the credential fields, "21s" of the header
CredKeep == 20
CredField == 21

\* b"hello-000\x00"
HELLO_MSG == <<104, 101, 108, 108, 111, 45, 48, 48, 48, 0>>

MODEL_OUTLETS == [m \in {"SA-82-AR"} |-> 1]

\* ------------------------------------------------------- byte-string helpers
\* b[:n]
Take(b, n) == SubSeq(b, 1, IF Len(b) < n THEN Len(b) ELSE n)

\* b.ljust(n, fill): b itself when it is already n long or longer
Ljust(b, n, fill) ==
    IF Len(b) >= n THEN b ELSE b \o [i \in 1..(n - Len(b)) |-> fill]

\* struct.pack("<H", n) for n in 0..USHRT_MAX
Pack16(n) == <<n % 256, n \div 256>>

\* struct.unpack("<H", b)[0] for a 2-byte b
Unpack16(b) == b[1] + 256 * b[2]

\* struct's "21s": exactly 21 bytes, truncated or null padded
Fit21(b) == Ljust(Take(b, CredField), CredField, 0)

\* struct.pack("<B21s21sBBH", cls, u, p, sub, res, sq)
PackHeader(cls, u, p, sub, res, sq) ==
    <<cls>> \o Fit21(u) \o Fit21(p) \o <<sub, res>> \o Pack16(sq)

\* struct.pack raises struct.error unless every integer fits its field
HeaderPacks(cls, sub, res, sq) ==
    /\ cls \in 0..UCHAR_MAX
    /\ sub \in 0..UCHAR_MAX
    /\ res \in 0..UCHAR_MAX
    /\ sq \in 0..USHRT_MAX

\* struct.pack("<BB", chan, state)
PackPayload(chan, state) == <<chan, state>>

PayloadPacks(chan, state) == chan \in 0..UCHAR_MAX /\ state \in 0..UCHAR_MAX

\* --------------------------------------------------------------- credentials
\* username.encode("ascii")[:20].ljust(21, b"\x00") without the null padding
EncodeCred_nopad(s) == Take(s, CredKeep)

\* username.encode("ascii")[:20].ljust(21, b"\x00"); text is ASCII code points,
\* which encode("ascii") maps to the same byte values
EncodeCred(s) == Ljust(Take(s, CredKeep), CredField, 0)

\* "admin"
Admin == <<97, 100, 109, 105, 110>>

\* An ASCII lower-case name of length n whose letters cycle from offset k
Name(n, k) == [i \in 1..n |-> 97 + ((i + k) % 26)]

\* Names handed to the constructor in the credential runs
CredNames == {Admin} \cup {Name(n, k) : n \in 0..MaxNameLen, k \in 0..1}

\* (username, password) pairs handed to the constructor in the protocol runs
CredPairs == {<<Admin, Admin>>, <<Name(MaxNameLen, 0), <<>>>>}

\* Model strings handed to the constructor
Models == {"SA-82-AR", "SA-82", ""}

\* ------------------------------------------------------------------- state
Threads == {1, 2}

VARIABLES
    alive,        \* a client object exists (the constructor returned)
    ctorRet,      \* outcome of the last constructor call
    ctorArgs,     \* arguments of the last constructor call
    sock,         \* self.sock: None or a socket id
    seq,          \* self.seq
    relay_count,  \* self.relay_count
    uName,        \* self.uName
    pwd,          \* self.pwd
    opened,       \* sockets created and not yet closed
    relays,       \* the device's relay states, relay k at position k+1
    devOut,       \* bytes the device has queued as its answer
    pc,           \* per caller: where its public operation stands
    call,         \* per caller: the operation, its outlet and state arguments
    ret,          \* per caller: what the operation returned or raised
    packet,       \* per caller: the command frame it built
    resp,         \* per caller: what the response read returned
    wire,         \* per caller: socket events of the current operation
    prev,         \* the operation completed before the current one
    nCalls,       \* public operation calls issued so far
    overlap,      \* some call began while another caller's call was in progress
    inScope,      \* inside a with-block (__enter__ without __exit__)
    exited        \* __exit__ was the last thing done with the client

clientVars == <<alive, ctorRet, ctorArgs, relay_count, uName, pwd>>
sockVars == <<sock, opened>>
devVars == <<relays, devOut>>
callVars == <<pc, call, ret, packet, resp, wire, prev, nCalls, overlap>>
scopeVars == <<inScope, exited>>
vars == <<alive, ctorRet, ctorArgs, sock, seq, relay_count, uName, pwd,
          opened, relays, devOut, pc, call, ret, packet, resp, wire, prev,
          nCalls, overlap, inScope, exited>>

NoCall == [op |-> "none", outlet |-> 0, state |-> 0]
NoResp == [read |-> FALSE, data |-> <<>>]
NoPrev == [op |-> "none", outlet |-> 0, state |-> 0, ret |-> "none"]
NoArgs == [model |-> "", username |-> <<>>, password |-> <<>>]

Ev(e, s, d) == [ev |-> e, sock |-> s, data |-> d]

Init ==
    /\ alive = FALSE
    /\ ctorRet = "none"
    /\ ctorArgs = NoArgs
    /\ sock = None
    /\ seq = 0
    /\ relay_count = 0
    /\ uName = <<>>
    /\ pwd = <<>>
    /\ opened = {}
    /\ relays \in [1..MODEL_OUTLETS["SA-82-AR"] -> {STATE_RELAX, STATE_ENERGIZE}]
    /\ devOut = <<>>
    /\ pc = [t \in Threads |-> "idle"]
    /\ call = [t \in Threads |-> NoCall]
    /\ ret = [t \in Threads |-> "none"]
    /\ packet = [t \in Threads |-> <<>>]
    /\ resp = [t \in Threads |-> NoResp]
    /\ wire = [t \in Threads |-> <<>>]
    /\ prev = NoPrev
    /\ nCalls = 0
    /\ overlap = FALSE
    /\ inScope = FALSE
    /\ exited = FALSE

\* ------------------------------------------------------------- construction
\* model not in self.MODEL_OUTLETS.keys(), negated
ModelKnown_any(model) == model \in DOMAIN MODEL_OUTLETS \/ model = "SA-82"

ModelKnown(model) == model \in DOMAIN MODEL_OUTLETS

\* self.MODEL_OUTLETS[model]
RelayCountOf(model) ==
    IF model \in DOMAIN MODEL_OUTLETS THEN MODEL_OUTLETS[model] ELSE 0

\* SurgeX_DxPClient(host, model, username=u, password=p), called once
Construct(model, u, p) ==
    /\ ~alive
    /\ ctorRet = "none"
    /\ ctorArgs' = [model |-> model, username |-> u, password |-> p]
    /\ IF ModelKnown(model)
       THEN /\ alive' = TRUE
            /\ ctorRet' = "ok"
            /\ uName' = EncodeCred(u)
            /\ pwd' = EncodeCred(p)
            /\ sock' = None
            /\ seq' = 0
            /\ relay_count' = RelayCountOf(model)
       ELSE /\ alive' = FALSE
            /\ ctorRet' = "ValueError"
            /\ UNCHANGED <<uName, pwd, sock, seq, relay_count>>
    /\ UNCHANGED <<opened, devVars, callVars, scopeVars>>

\* ------------------------------------------------------------- _disconnect
\* _disconnect without the close: the reference is cleared, the socket leaks
DiscOpened_leak(s, o) == o

\* self.sock after _disconnect()
DiscSock(s) == None

\* the open sockets after _disconnect(): self.sock is closed if it is set
DiscOpened(s, o) == IF s # None THEN o \ {s} ELSE o

\* the socket events after _disconnect()
DiscWire(s, w) == IF s # None THEN Append(w, Ev("close", s, <<>>)) ELSE w

\* ------------------------------------------------------------ the device
\* A device as the wire protocol describes it: a change-relay frame sets the
\* relay at channel-1 and is acknowledged with 0x00, a get-relays frame is
\* answered with the state of every relay.
FrameSub(f) == f[44]
FrameSeq(f) == f[46] + 256 * f[47]
FrameChan(f) == f[48]
FrameState(f) == f[49]

IsChangeFrame(f) ==
    Len(f) = 49 /\ f[1] = CMD_IO /\ FrameSub(f) = IO_CHANGE_RELAY

IsGetFrame(f) ==
    Len(f) = 47 /\ f[1] = CMD_IO /\ FrameSub(f) = IO_GET_RELAYS

DevRelays(f, rl) ==
    IF IsChangeFrame(f) /\ FrameChan(f) \in 1..Len(rl)
    THEN [rl EXCEPT ![FrameChan(f)] = FrameState(f)]
    ELSE rl

DevReply(f, rl) ==
    IF IsChangeFrame(f)
    THEN (IF FrameChan(f) \in 1..Len(rl) THEN <<0>> ELSE <<1>>)
    ELSE IF IsGetFrame(f) THEN rl ELSE <<>>

\* Seeds the device answers the hello with
Seeds == {5, USHRT_MAX - 1, USHRT_MAX}

\* What recv(2) may return in the handshake: nothing, one byte, or a seed
HelloReplies == {<<>>, <<5>>} \cup {Pack16(s) : s \in Seeds}

\* Byte values a response may carry
ByteSamples == {0, 1, 2}

\* What recv(n) may return: at most n bytes
RespBytes(n) == UNION {[1..k -> ByteSamples] : k \in 0..n}

\* ------------------------------------------------------ public operations
\* 0 <= outlet <= self.relay_count: the off-by-one form of the range test
ValidOutlet_offByOne(outlet, rc) == 0 <= outlet /\ outlet <= rc

\* 0 <= outlet < self.relay_count
ValidOutlet(outlet, rc) == 0 <= outlet /\ outlet < rc

Outlets == (0 - 1)..MaxOutlet

IsChange(c) == c.op \in {"turn_on_outlet", "turn_off_outlet"}

Finished(t) == pc[t] \in {"idle", "done"}

\* _ensure_connected that runs the handshake whether or not a socket is held
EnsureTarget_always(s) == "connect"

\* _ensure_connected: the handshake runs if and only if self.sock is None;
\* otherwise the operation goes on to build its command
EnsureTarget(s) == IF s = None THEN "connect" ELSE "build"

\* Entry of a public operation up to its first blocking call: the range test
\* (with _disconnect and the return or raise when it fails) and the test of
\* _ensure_connected.
BeginCall(t, op, outlet, state) ==
    /\ alive
    /\ Finished(t)
    /\ nCalls < MaxCalls
    /\ nCalls' = nCalls + 1
    /\ overlap' = (overlap \/ \E u \in Threads \ {t} : ~Finished(u))
    /\ prev' = IF pc[t] = "done"
               THEN [op |-> call[t].op, outlet |-> call[t].outlet,
                     state |-> call[t].state, ret |-> ret[t]]
               ELSE prev
    /\ call' = [call EXCEPT ![t] = [op |-> op, outlet |-> outlet, state |-> state]]
    /\ packet' = [packet EXCEPT ![t] = <<>>]
    /\ resp' = [resp EXCEPT ![t] = NoResp]
    /\ exited' = FALSE
    /\ IF ~ValidOutlet(outlet, relay_count)
       THEN /\ sock' = DiscSock(sock)
            /\ opened' = DiscOpened(sock, opened)
            /\ wire' = [wire EXCEPT ![t] = DiscWire(sock, <<>>)]
            /\ ret' = [ret EXCEPT ![t] =
                          IF op = "get_outlet_state" THEN "ValueError" ELSE "False"]
            /\ pc' = [pc EXCEPT ![t] = "done"]
       ELSE /\ wire' = [wire EXCEPT ![t] = <<>>]
            /\ ret' = [ret EXCEPT ![t] = "none"]
            /\ pc' = [pc EXCEPT ![t] = EnsureTarget(sock)]
            /\ UNCHANGED <<sock, opened>>
    /\ UNCHANGED <<clientVars, seq, devVars, inScope>>

\* turn_on_outlet(outlet)
TurnOn(t, outlet) == BeginCall(t, "turn_on_outlet", outlet, STATE_ENERGIZE)

\* turn_off_outlet(outlet)
TurnOff(t, outlet) == BeginCall(t, "turn_off_outlet", outlet, STATE_RELAX)

\* get_outlet_state(outlet)
GetState(t, outlet) == BeginCall(t, "get_outlet_state", outlet, STATE_RELAX)

\* ------------------------------------------------------------------ _hello
\* a handler of _hello that tries the connection again
HelloFailTarget_retry == "connect"

\* where the operation goes on after a handler of _hello ran: _hello returns
\* and the caller builds its command; nothing is tried again
HelloFailTarget == "build"

NewSock == CHOOSE s \in 1..(MaxSockets + 1) : s \notin opened

\* socket.create_connection returns or raises; the handlers of _hello call
\* _disconnect and _hello returns
HelloConnect(t, ok) ==
    /\ pc[t] = "connect"
    /\ IF ok
       THEN /\ Cardinality(opened) < MaxSockets
            /\ sock' = NewSock
            /\ opened' = opened \cup {NewSock}
            /\ wire' = [wire EXCEPT ![t] = Append(@, Ev("connect", NewSock, <<>>))]
            /\ pc' = [pc EXCEPT ![t] = "hello_send"]
       ELSE /\ sock' = DiscSock(sock)
            /\ opened' = DiscOpened(sock, opened)
            /\ wire' = [wire EXCEPT ![t] =
                           DiscWire(sock, Append(@, Ev("connect_fail", None, <<>>)))]
            /\ pc' = [pc EXCEPT ![t] = HelloFailTarget]
    /\ devOut' = <<>>
    /\ UNCHANGED <<clientVars, seq, relays, call, ret, packet, resp, prev, nCalls,
                   overlap, scopeVars>>

\* self.sock.sendall(HELLO_MSG) returns or raises
HelloSend(t, ok) ==
    /\ pc[t] = "hello_send"
    /\ IF sock # None /\ ok
       THEN /\ wire' = [wire EXCEPT ![t] = Append(@, Ev("send", sock, HELLO_MSG))]
            /\ pc' = [pc EXCEPT ![t] = "hello_recv"]
            /\ UNCHANGED <<sock, opened>>
       ELSE /\ sock' = DiscSock(sock)
            /\ opened' = DiscOpened(sock, opened)
            /\ wire' = [wire EXCEPT ![t] =
                           DiscWire(sock, Append(@, Ev("send_fail", sock, HELLO_MSG)))]
            /\ pc' = [pc EXCEPT ![t] = HelloFailTarget]
    /\ UNCHANGED <<clientVars, seq, devVars, call, ret, packet, resp, prev, nCalls,
                   overlap, scopeVars>>

\* struct.unpack("<H", seqb)[0]
SeedOf(seqb) == Unpack16(seqb)

\* self.sock.recv(2) returns seqb or raises; a seqb that is not 2 bytes long
\* makes struct.unpack raise, which the second handler catches
HelloRecv(t, ok, seqb) ==
    /\ pc[t] = "hello_recv"
    /\ Len(seqb) <= 2
    /\ IF sock # None /\ ok /\ Len(seqb) = 2
       THEN /\ seq' = SeedOf(seqb)
            /\ wire' = [wire EXCEPT ![t] = Append(@, Ev("recv", sock, seqb))]
            /\ UNCHANGED <<sock, opened>>
       ELSE /\ sock' = DiscSock(sock)
            /\ opened' = DiscOpened(sock, opened)
            /\ wire' = [wire EXCEPT ![t] =
                           DiscWire(sock,
                               Append(@, IF sock # None /\ ok
                                         THEN Ev("recv", sock, seqb)
                                         ELSE Ev("recv_fail", sock, <<>>)))]
            /\ UNCHANGED seq
    /\ pc' = [pc EXCEPT ![t] =
                 IF sock # None /\ ok /\ Len(seqb) = 2 THEN "build" ELSE HelloFailTarget]
    /\ UNCHANGED <<clientVars, devVars, call, ret, packet, resp, prev, nCalls,
                   overlap, scopeVars>>

\* --------------------------------------------- command build, send, response
SubCommand(c) == IF IsChange(c) THEN IO_CHANGE_RELAY ELSE IO_GET_RELAYS

\* chan = outlet: the channel left 0-based
ChanOf_zeroBased(outlet) == outlet

\* chan = outlet + 1
ChanOf(outlet) == outlet + 1

\* self.seq += 1
NextSeq(sq) == sq + 1

\* The frame of the call: header, and for a change the 2-byte payload
BuildPacket(c, u, p, sq) ==
    PackHeader(CMD_IO, u, p, SubCommand(c), 0, sq)
        \o (IF IsChange(c) THEN PackPayload(ChanOf(c.outlet), c.state) ELSE <<>>)

\* struct.pack raises struct.error
PacketPacks(c, sq) ==
    /\ HeaderPacks(CMD_IO, SubCommand(c), 0, sq)
    /\ IsChange(c) => PayloadPacks(ChanOf(c.outlet), c.state)

\* From the return of _ensure_connected to the end of self.sock.sendall(packet):
\* the sequence increment, struct.pack, and the send, any of which may raise
\* out of the operation
SendCmd(t, ok) ==
    /\ pc[t] = "build"
    /\ seq' = NextSeq(seq)
    /\ IF ~PacketPacks(call[t], NextSeq(seq))
       THEN /\ ret' = [ret EXCEPT ![t] = "struct.error"]
            /\ pc' = [pc EXCEPT ![t] = "done"]
            /\ UNCHANGED <<packet, wire, devVars>>
       ELSE /\ packet' = [packet EXCEPT ![t] =
                             BuildPacket(call[t], uName, pwd, NextSeq(seq))]
            /\ IF sock = None
               THEN /\ ret' = [ret EXCEPT ![t] = "AttributeError"]
                    /\ pc' = [pc EXCEPT ![t] = "done"]
                    /\ UNCHANGED <<wire, devVars>>
               ELSE IF ok
               THEN /\ wire' = [wire EXCEPT ![t] = Append(@, Ev("send", sock, packet'[t]))]
                    /\ relays' = DevRelays(packet'[t], relays)
                    /\ devOut' = DevReply(packet'[t], relays')
                    /\ pc' = [pc EXCEPT ![t] = "recv"]
                    /\ UNCHANGED ret
               ELSE /\ wire' = [wire EXCEPT ![t] =
                                   Append(@, Ev("send_fail", sock, packet'[t]))]
                    /\ ret' = [ret EXCEPT ![t] = "socket.error"]
                    /\ pc' = [pc EXCEPT ![t] = "done"]
                    /\ UNCHANGED devVars
    /\ UNCHANGED <<clientVars, sockVars, call, resp, prev, nCalls, overlap, scopeVars>>

\* ack == b"\x00" read as "ack is not b'\x01'"
AckOk_notOne(ack) == ack # <<1>>

\* ack == b"\x00"
AckOk(ack) == ack = <<0>>

\* data.ljust(self.relay_count, b"\x00") left out
PadStatus_none(data, rc) == data

\* data.ljust(self.relay_count, b"\x00")
PadStatus(data, rc) == Ljust(data, rc, 0)

\* data[outlet] == STATE_ENERGIZE, or IndexError
StatusAt(data, outlet) ==
    IF outlet + 1 > Len(data) THEN "IndexError"
    ELSE IF data[outlet + 1] = STATE_ENERGIZE THEN "True" ELSE "False"

\* Bytes the response read asks for: recv(1) or recv(self.relay_count)
RecvSize(c) == IF IsChange(c) THEN 1 ELSE relay_count

\* What the operation returns once the response was read
Result(c, data) ==
    IF IsChange(c)
    THEN (IF AckOk(data) THEN "True" ELSE "False")
    ELSE StatusAt(PadStatus(data, relay_count), c.outlet)

\* self.sock.recv(n) returns data or raises; after a return: _disconnect and
\* the operation's result
RecvResp(t, ok, data) ==
    /\ pc[t] = "recv"
    /\ Len(data) <= RecvSize(call[t])
    /\ IF sock = None
       THEN /\ ret' = [ret EXCEPT ![t] = "AttributeError"]
            /\ UNCHANGED <<sock, opened, wire, resp, devOut>>
       ELSE IF ok
       THEN /\ resp' = [resp EXCEPT ![t] = [read |-> TRUE, data |-> data]]
            /\ sock' = DiscSock(sock)
            /\ opened' = DiscOpened(sock, opened)
            /\ wire' = [wire EXCEPT ![t] =
                           DiscWire(sock, Append(@, Ev("recv", sock, data)))]
            /\ ret' = [ret EXCEPT ![t] = Result(call[t], data)]
            /\ devOut' = <<>>
       ELSE /\ wire' = [wire EXCEPT ![t] = Append(@, Ev("recv_fail", sock, <<>>))]
            /\ ret' = [ret EXCEPT ![t] = "socket.error"]
            /\ UNCHANGED <<sock, opened, resp, devOut>>
    /\ pc' = [pc EXCEPT ![t] = "done"]
    /\ UNCHANGED <<clientVars, seq, relays, call, packet, prev, nCalls, overlap, scopeVars>>

\* ------------------------------------------------------------ with-block
\* __enter__
Enter(t) ==
    /\ alive
    /\ Finished(t)
    /\ ~inScope
    /\ inScope' = TRUE
    /\ exited' = FALSE
    /\ UNCHANGED <<clientVars, sockVars, seq, devVars, callVars>>

\* __exit__, reached when the block ends or an operation in it raised
Exit(t) ==
    /\ alive
    /\ Finished(t)
    /\ inScope
    /\ sock' = DiscSock(sock)
    /\ opened' = DiscOpened(sock, opened)
    /\ inScope' = FALSE
    /\ exited' = TRUE
    /\ UNCHANGED <<clientVars, seq, devVars, callVars>>

\* ---------------------------------------------------------- specifications
\* Callers of the serialized runs: one call at a time
Serial == {1}

\* Any outcome of every socket call
Next ==
    \/ \E m \in Models, c \in CredPairs : Construct(m, c[1], c[2])
    \/ \E t \in Serial, o \in Outlets : TurnOn(t, o)
    \/ \E t \in Serial, o \in Outlets : TurnOff(t, o)
    \/ \E t \in Serial, o \in Outlets : GetState(t, o)
    \/ \E t \in Serial, ok \in BOOLEAN : HelloConnect(t, ok)
    \/ \E t \in Serial, ok \in BOOLEAN : HelloSend(t, ok)
    \/ \E t \in Serial, ok \in BOOLEAN, b \in HelloReplies : HelloRecv(t, ok, b)
    \/ \E t \in Serial, ok \in BOOLEAN : SendCmd(t, ok)
    \/ \E t \in Serial, ok \in BOOLEAN :
           \E b \in RespBytes(RecvSize(call[t])) : RecvResp(t, ok, b)
    \/ \E t \in Serial : Enter(t)
    \/ \E t \in Serial : Exit(t)

Spec == Init /\ [][Next]_vars

\* The simulated device and no I/O failure: every socket call succeeds, the
\* handshake is answered with a seed, a read returns what the device queued
NextSim ==
    \/ \E m \in Models, c \in CredPairs : Construct(m, c[1], c[2])
    \/ \E t \in Serial, o \in Outlets : TurnOn(t, o)
    \/ \E t \in Serial, o \in Outlets : TurnOff(t, o)
    \/ \E t \in Serial, o \in Outlets : GetState(t, o)
    \/ \E t \in Serial : HelloConnect(t, TRUE)
    \/ \E t \in Serial : HelloSend(t, TRUE)
    \/ \E t \in Serial, s \in Seeds : HelloRecv(t, TRUE, Pack16(s))
    \/ \E t \in Serial : SendCmd(t, TRUE)
    \/ \E t \in Serial : RecvResp(t, TRUE, Take(devOut, RecvSize(call[t])))
    \/ \E t \in Serial : Enter(t)
    \/ \E t \in Serial : Exit(t)

SpecSim == Init /\ [][NextSim]_vars

\* Construction alone, over every name of CredNames
NextCred ==
    \E m \in Models, u \in CredNames, p \in CredNames : Construct(m, u, p)

SpecCred == Init /\ [][NextCred]_vars

\* Two callers on one client with no serialization: a call may begin, and any
\* step of a call may run, while the other caller's call is in progress. The
\* socket calls go through, the device seeds with 5 and answers with the one
\* byte 0x00, so that what goes wrong is due to the interleaving alone.
NextConc ==
    \/ \E m \in Models : Construct(m, Admin, Admin)
    \/ \E t \in Threads, o \in Outlets : TurnOn(t, o)
    \/ \E t \in Threads, o \in Outlets : TurnOff(t, o)
    \/ \E t \in Threads, o \in Outlets : GetState(t, o)
    \/ \E t \in Threads : HelloConnect(t, TRUE)
    \/ \E t \in Threads : HelloSend(t, TRUE)
    \/ \E t \in Threads : HelloRecv(t, TRUE, Pack16(5))
    \/ \E t \in Threads : SendCmd(t, TRUE)
    \/ \E t \in Threads : RecvResp(t, TRUE, <<0>>)

SpecConc == Init /\ [][NextConc]_vars

\* ------------------------------------------------------------------ claims
Done(t) == pc[t] = "done"

\* The outlet of the call lies in [0, relay_count)
InRange(c) == c.outlet \in 0..(relay_count - 1)

IsGet(c) == c.op = "get_outlet_state"

\* The seed this operation's handshake read, or -1 when it read none
HandshakeSeed(w) ==
    IF Len(w) >= 3 /\ w[3].ev = "recv" /\ Len(w[3].data) = 2
    THEN w[3].data[1] + 256 * w[3].data[2]
    ELSE 0 - 1

\* C1: against the simulated device and without I/O failures, a
\* get_outlet_state(i) that directly follows turn_on_outlet(i) returns true and
\* one that directly follows turn_off_outlet(i) returns false, for every valid i.
C1_OnOffThenGet ==
    \A t \in Threads :
        (Done(t) /\ IsGet(call[t]) /\ InRange(call[t])
              /\ prev.outlet = call[t].outlet)
            => /\ prev.op = "turn_on_outlet" => ret[t] = "True"
               /\ prev.op = "turn_off_outlet" => ret[t] = "False"

\* C2: an operation called with an outlet outside [0, relay_count) returns false
\* (turn_on_outlet, turn_off_outlet) or raises the range error
\* (get_outlet_state), and opens no connection and sends or reads no bytes: the
\* only socket event it may cause is the close of a socket left open before.
C2_InvalidIndexNoWire ==
    \A t \in Threads :
        (Done(t) /\ ~InRange(call[t]))
            => /\ ret[t] = IF IsGet(call[t]) THEN "ValueError" ELSE "False"
               /\ \A i \in DOMAIN wire[t] : wire[t][i].ev = "close"
               /\ packet[t] = <<>>
               /\ ~resp[t].read

\* An invalid index arrives while a socket of an earlier, failed call is open
C2_Witness ==
    /\ Done(1)
    /\ ~InRange(call[1])
    /\ call[1].outlet = relay_count
    /\ ret[1] = "False"
    /\ prev.ret = "socket.error"
    /\ Len(wire[1]) = 1

\* C3: when a public operation has returned or raised, the socket is closed and
\* the client holds no socket reference.
C3_EndsDisconnected ==
    \A t \in Threads : (Done(t) /\ ~exited) => (sock = None /\ opened = {})

\* C4: a public operation raises only the range error of get_outlet_state; in
\* every other case it returns a boolean, and turn_on_outlet / turn_off_outlet
\* return false when the handshake or the command exchange failed.
C4_OnlyRangeErrorRaised ==
    \A t \in Threads :
        Done(t) =>
            \/ ret[t] \in {"True", "False"}
            \/ ret[t] = "ValueError" /\ IsGet(call[t]) /\ ~InRange(call[t])

\* C5: turn_on_outlet / turn_off_outlet return true exactly when the
\* acknowledgment read returned the single byte 0x00; when the read returned
\* anything else (another byte, or nothing) they return false.
C5_AckDecidesResult ==
    \A t \in Threads :
        (Done(t) /\ IsChange(call[t]) /\ InRange(call[t]))
            => /\ ret[t] = "True" <=> (resp[t].read /\ resp[t].data = <<0>>)
               /\ (resp[t].read /\ resp[t].data # <<0>>) => ret[t] = "False"

\* The acknowledgment read came back empty and the operation returned false
C5_Witness ==
    /\ Done(1)
    /\ IsChange(call[1])
    /\ HandshakeSeed(wire[1]) >= 0
    /\ resp[1].read
    /\ resp[1].data = <<>>
    /\ ret[1] = "False"

\* C6: after a handshake that read the seed s, the sequence counter is s, and
\* the operation then sends a command whose header carries the sequence s+1.
C6_SeedThenNextSequence ==
    \A t \in Threads :
        HandshakeSeed(wire[t]) >= 0
            => /\ pc[t] = "build" => seq = HandshakeSeed(wire[t])
               /\ pc[t] \in {"recv", "done"} =>
                      \E j \in 4..Len(wire[t]) :
                          /\ wire[t][j].ev \in {"send", "send_fail"}
                          /\ FrameSeq(wire[t][j].data) = HandshakeSeed(wire[t]) + 1

\* C7: for a valid outlet i, get_outlet_state(i) never fails on the index; when
\* the status read returned, the result is true exactly when the response has a
\* byte at position i and it is 0x01 (so false for a response of fewer than i+1
\* bytes), and the padded response is exactly relay_count bytes long.
C7_StatusByteDecides ==
    \A t \in Threads :
        (Done(t) /\ IsGet(call[t]) /\ InRange(call[t]))
            => /\ ret[t] # "IndexError"
               /\ ret[t] = "True" => resp[t].read
               /\ resp[t].read =>
                      /\ Len(PadStatus(resp[t].data, relay_count)) = relay_count
                      /\ ret[t] =
                            IF /\ Len(resp[t].data) >= call[t].outlet + 1
                               /\ resp[t].data[call[t].outlet + 1] = 1
                            THEN "True" ELSE "False"

\* The status read came back shorter than i+1 bytes and the result is false
C7_Witness ==
    /\ Done(1)
    /\ IsGet(call[1])
    /\ InRange(call[1])
    /\ resp[1].read
    /\ Len(resp[1].data) < call[1].outlet + 1
    /\ ret[1] = "False"

\* C8: once the with-block has been left, the socket is closed and the client
\* holds no socket reference.
C8_ScopeExitDisconnects ==
    exited => (sock = None /\ opened = {})

\* The block was left because an operation raised with its socket still open
C8_Witness ==
    /\ exited
    /\ Done(1)
    /\ ret[1] = "socket.error"
    /\ wire[1][Len(wire[1])].ev = "recv_fail"

\* C9: the constructor succeeds exactly for a model of the registry; the client
\* it yields has relay_count of the registry entry (1 for "SA-82-AR") and, until
\* an operation is called, no socket and sequence counter 0. For any other
\* model it raises the configuration error, yields no client and causes no
\* socket event.
C9_Construction ==
    /\ ctorRet # "none" =>
           (ctorRet = "ok" <=> ctorArgs.model \in DOMAIN MODEL_OUTLETS)
    /\ ctorRet = "ok" =>
           /\ alive
           /\ relay_count = MODEL_OUTLETS[ctorArgs.model]
           /\ ctorArgs.model = "SA-82-AR" => relay_count = 1
           /\ nCalls = 0 => (sock = None /\ seq = 0 /\ opened = {})
    /\ ctorRet \notin {"none", "ok"} =>
           /\ ctorRet = "ValueError"
           /\ ~alive
           /\ sock = None /\ opened = {}
           /\ \A t \in Threads : wire[t] = <<>> /\ pc[t] = "idle"
    /\ alive <=> ctorRet = "ok"

\* An unregistered model was refused
C9_Witness ==
    /\ ctorRet = "ValueError"
    /\ ctorArgs.model = "SA-82"
    /\ ~alive

\* The first min(n, 20) characters of s, then null bytes, 21 bytes in all
CredFieldOf(s, f) ==
    /\ Len(f) = 21
    /\ \A i \in 1..21 : f[i] = IF i <= Len(s) /\ i <= 20 THEN s[i] ELSE 0

\* C10: the stored username and password fields are each exactly 21 bytes: the
\* first min(n, 20) characters of the argument followed by null bytes; "admin"
\* becomes "admin" and sixteen nulls.
C10_CredentialField ==
    ctorRet = "ok" =>
        /\ CredFieldOf(ctorArgs.username, uName)
        /\ CredFieldOf(ctorArgs.password, pwd)
        /\ uName[21] = 0 /\ pwd[21] = 0
        /\ ctorArgs.username = Admin =>
               uName = <<97, 100, 109, 105, 110,
                         0, 0, 0, 0, 0, 0, 0, 0, 0, 0, 0, 0, 0, 0, 0, 0>>

\* A name longer than 20 characters was cut to its first 20
C10_Witness ==
    /\ ctorRet = "ok"
    /\ Len(ctorArgs.username) > 20
    /\ uName[20] = ctorArgs.username[20]
    /\ uName[21] = 0
    /\ Len(uName) = 21

\* A command frame went out: a send that is not the 10-byte hello
IsCmdSend(e) == e.ev = "send" /\ Len(e.data) >= 47

CmdSends(w) == {j \in DOMAIN w : IsCmdSend(w[j])}

\* C11: every command frame of an operation is sent on a connection that the
\* same operation opened and on which it read the 2-byte seed, and an operation
\* sends at most one command frame; so no connection carries two commands.
C11_SessionNotReused ==
    \A t \in Threads :
        /\ Cardinality(CmdSends(wire[t])) <= 1
        /\ \A j \in CmdSends(wire[t]) :
               \E i \in 1..(j - 1) :
                   /\ wire[t][i].ev = "connect"
                   /\ wire[t][i].sock = wire[t][j].sock
                   /\ \E k \in (i + 1)..(j - 1) :
                          /\ wire[t][k].ev = "recv"
                          /\ wire[t][k].sock = wire[t][j].sock
                          /\ Len(wire[t][k].data) = 2

\* The socket calls of an operation that went through, the closes left out
Exchanged(w) == SelectSeq(w, LAMBDA e : e.ev \in {"connect", "send", "recv"})

Closes(w) == {j \in DOMAIN w : w[j].ev = "close"}

\* connect, send hello, receive seed, send command, receive response
Lifecycle == <<"connect", "send", "recv", "send", "recv">>

\* C12: in an operation with a valid outlet the socket calls that go through are
\* an initial part of: connect, send the 10-byte hello, receive the 2-byte seed,
\* send one command frame, receive one response; a close comes last; and a
\* command frame is sent only after the seed was read on the same connection.
C12_LifecycleOrder ==
    \A t \in Threads :
        InRange(call[t]) =>
            /\ Len(Exchanged(wire[t])) <= Len(Lifecycle)
            /\ \A i \in DOMAIN Exchanged(wire[t]) :
                   /\ Exchanged(wire[t])[i].ev = Lifecycle[i]
                   /\ i = 2 => Exchanged(wire[t])[i].data = HELLO_MSG
                   /\ i = 4 => /\ Len(Exchanged(wire[t])[3].data) = 2
                               /\ Len(Exchanged(wire[t])[i].data) >= 47
                               /\ Exchanged(wire[t])[i].sock = Exchanged(wire[t])[1].sock
            /\ Closes(wire[t]) \subseteq {Len(wire[t])}

\* The caller is inside _hello
InHello(t) == pc[t] \in {"connect", "hello_send", "hello_recv"}

\* The step stores a seed: its last socket event is the read of 2 bytes
SeedStored(t) ==
    /\ pc[t] = "hello_recv"
    /\ wire'[t] # <<>>
    /\ wire'[t][Len(wire'[t])].ev = "recv"
    /\ Len(wire'[t][Len(wire'[t])].data) = 2

\* C13: _hello never raises: each of its steps leads to its next step or back
\* to the caller. A step that ends it without storing a seed (connect refused
\* or timed out, send error, receive error, a seed read of fewer than 2 bytes)
\* leaves no socket reference and no open socket, and no step of a failing
\* handshake changes the sequence counter.
C13_HelloFailureTornDown ==
    [][\A t \in Threads :
          (InHello(t) /\ pc'[t] # pc[t]) =>
              /\ pc'[t] \in {"hello_send", "hello_recv", "build"}
              /\ ~SeedStored(t) => seq' = seq
              /\ (pc'[t] = "build" /\ ~SeedStored(t)) =>
                     (sock' = None /\ opened' = {})]_vars

\* A 1-byte seed read ended the handshake; the counter kept its earlier value
C13_Witness ==
    /\ pc[1] = "build"
    /\ Len(wire[1]) = 4
    /\ wire[1][3].ev = "recv"
    /\ Len(wire[1][3].data) = 1
    /\ wire[1][4].ev = "close"
    /\ sock = None
    /\ opened = {}
    /\ prev.ret = "True"
    /\ seq = 6

\* C14: on entry of an operation with a valid outlet, the handshake is started
\* exactly when no socket is held; the test itself opens no connection, sends
\* nothing and leaves the socket and the sequence counter as they are, so with
\* a socket held the operation goes straight on to its command.
C14_EnsureConnected ==
    [][\A t \in Threads :
          (Finished(t) /\ pc'[t] \in {"connect", "build"}) =>
              /\ pc'[t] = "connect" <=> sock = None
              /\ sock' = sock
              /\ opened' = opened
              /\ seq' = seq
              /\ wire'[t] = <<>>]_vars

\* An operation found a socket open and skipped the handshake
C14_Witness ==
    /\ pc[1] = "build"
    /\ wire[1] = <<>>
    /\ sock # None
    /\ sock \in opened

\* C15: with one call at a time, at most one socket is open, and a socket is
\* open exactly when self.sock refers to it.
C15_AtMostOneSocket ==
    /\ Cardinality(opened) <= 1
    /\ opened = IF sock = None THEN {} ELSE {sock}

\* A second connection is open after the first one was closed
C15_Witness ==
    /\ nCalls >= 2
    /\ prev.ret = "True"
    /\ sock # None
    /\ opened = {sock}
    /\ pc[1] = "hello_recv"

\* C16: the sequence counter stays within 0..65535, and the sequence field of
\* the command frame an operation built holds the counter's value.
C16_SixteenBitCounter ==
    /\ seq \in 0..65535
    /\ \A t \in Threads :
           packet[t] # <<>> => packet[t][46] + 256 * packet[t][47] = seq

\* Attempts to send a command frame, whether or not the send went through
CmdAttempts(w) ==
    {j \in DOMAIN w : w[j].ev \in {"send", "send_fail"} /\ Len(w[j].data) >= 47}

\* C17: the frame an operation builds, and the frame it hands to sendall, is the
\* 47-byte header (class 0x03, the two 21-byte credential fields, sub-command,
\* a zero byte, the 2-byte little-endian sequence); for turn_on_outlet and
\* turn_off_outlet sub-command 0x01 and the payload outlet+1, 0x01 or 0x00 (49
\* bytes); for get_outlet_state sub-command 0x04 and nothing more (47 bytes).
C17_FrameLayout ==
    \A t \in Threads :
        /\ \A j \in CmdAttempts(wire[t]) : wire[t][j].data = packet[t]
        /\ packet[t] # <<>> =>
               /\ packet[t][1] = 3
               /\ Len(uName) = 21 /\ SubSeq(packet[t], 2, 22) = uName
               /\ Len(pwd) = 21 /\ SubSeq(packet[t], 23, 43) = pwd
               /\ packet[t][45] = 0
               /\ packet[t][46] = seq % 256
               /\ packet[t][47] = seq \div 256
               /\ packet[t][47] \in 0..255
               /\ IF call[t].op = "get_outlet_state"
                  THEN Len(packet[t]) = 47 /\ packet[t][44] = 4
                  ELSE /\ Len(packet[t]) = 49
                       /\ packet[t][44] = 1
                       /\ packet[t][48] = call[t].outlet + 1
                       /\ packet[t][49] =
                              IF call[t].op = "turn_on_outlet" THEN 1 ELSE 0

\* turn_on_outlet(0) sent its 49-byte frame with channel 1 and state 0x01
C17_Witness ==
    /\ Done(1)
    /\ call[1].op = "turn_on_outlet"
    /\ ret[1] = "True"
    /\ Len(packet[1]) = 49
    /\ packet[1][48] = 1
    /\ packet[1][49] = 1
    /\ \E j \in DOMAIN wire[1] : wire[1][j].ev = "send" /\ wire[1][j].data = packet[1]

ConnAttempts(w) == {j \in DOMAIN w : w[j].ev \in {"connect", "connect_fail"}}

HelloSends(w) ==
    {j \in DOMAIN w : w[j].ev \in {"send", "send_fail"} /\ w[j].data = HELLO_MSG}

RespReads(w) ==
    {j \in DOMAIN w : /\ w[j].ev \in {"recv", "recv_fail"}
                      /\ \E i \in CmdAttempts(w) : i < j}

\* How far an operation has come
Rank(p) ==
    CASE p = "connect" -> 1
      [] p = "hello_send" -> 2
      [] p = "hello_recv" -> 3
      [] p = "build" -> 4
      [] p = "recv" -> 5
      [] OTHER -> 6

\* C18: a call makes at most one connection attempt, at most one hello send, at
\* most one command send and at most one response read; while it has not
\* returned or raised a next step is possible, and every step takes it strictly
\* forward, so it ends after at most five socket calls and nothing is retried.
C18_NoRetryTerminates ==
    /\ [](\A t \in Threads :
             /\ Cardinality(ConnAttempts(wire[t])) <= 1
             /\ Cardinality(HelloSends(wire[t])) <= 1
             /\ Cardinality(CmdAttempts(wire[t])) <= 1
             /\ Cardinality(RespReads(wire[t])) <= 1
             /\ (alive /\ ~Finished(t)) => ENABLED Next)
    /\ [][\A t \in Threads :
             (~Finished(t) /\ pc'[t] # pc[t]) => Rank(pc'[t]) > Rank(pc[t])]_vars

\* A call whose handshake send failed ended with one attempt of each kind
C18_Witness ==
    /\ Done(1)
    /\ ret[1] = "AttributeError"
    /\ Cardinality(ConnAttempts(wire[1])) = 1
    /\ Cardinality(HelloSends(wire[1])) = 1
    /\ \E j \in DOMAIN wire[1] : wire[1][j].ev = "send_fail"
    /\ CmdAttempts(wire[1]) = {}
    /\ packet[1] # <<>>

\* A socket is open that self.sock does not refer to: nothing can close it
Leaked == \E s \in opened : s # sock

\* A call read its seed and then found self.sock cleared when it went to send
SendOnCleared ==
    \E t \in Threads :
        /\ Done(t)
        /\ ret[t] = "AttributeError"
        /\ HandshakeSeed(wire[t]) >= 0

\* C19: a socket that is open but no longer referred to, and a call that lost
\* its socket between its handshake and its send, occur only when a call began
\* while another caller's call was in progress; with two unserialized callers
\* both do occur.
C19_UnsafeOnlyWhenInterleaved ==
    (Leaked \/ SendOnCleared) => overlap

\* One call's socket was overwritten by the other's handshake and stays open,
\* and one call raised because the other had closed and cleared the socket
C19_Witness ==
    /\ overlap
    /\ Leaked
    /\ SendOnCleared
    /\ \A t \in Threads : Done(t)

====
